---- MODULE Spec2Model ----
(***************************************************************************)
(* vue-eslint-parser, src/index.ts: the document parsing coordinator.      *)
(*                                                                         *)
(* Strings are sequences of one-character strings.  JavaScript objects are *)
(* functions from property names to values; a record is such a function.   *)
(* The collaborators the coordinator calls (./html, ./script,              *)
(* ./common/location-calculator, ./parser-services) are modelled by the    *)
(* interface the coordinator consumes.                                     *)
(***************************************************************************)
EXTENDS Integers, Sequences, FiniteSets

VARIABLES
    services,           \* module level: the imported ./parser-services mapping
    lastIndex,          \* module level: STARTS_WITH_LT.lastIndex
    pc,                 \* position of the current call
    code,               \* argument `code`
    callerOptions,      \* the object the caller passed as `options`
    argOptions,         \* what that object held when the call was entered
    options,            \* the local `options` after line 51
    isVue,              \* the value of isVueFile(code, options) at line 59
    tokenizer,          \* line 63
    rootAST,            \* line 64
    locationCalcurator, \* line 65
    script,             \* line 66
    template,           \* line 67
    result,             \* lines 60 / 68 / 80 / 81
    parserReturn,       \* what the script parser handed back, as it handed it back
    scriptCalls,        \* the calls made to ./script during this call
    htmlCalls,          \* the number of HTMLParser runs during this call
    returned,           \* the value given to the caller
    calls,              \* the number of calls entered, where the caller counts them
    scriptOffset,       \* an offset handed to the location calculator
    documentOffset      \* what the location calculator answered

vars == <<services, lastIndex, pc, code, callerOptions, argOptions, options,
          isVue, tokenizer, rootAST, locationCalcurator, script, template,
          result, parserReturn, scriptCalls, htmlCalls, returned, calls,
          scriptOffset, documentOffset>>

(***************************************************************************)
(* Bounds of the model.                                                    *)
(***************************************************************************)
MaxPathLen == 5
MaxCodeLen == 2
MaxChildren == 2
MaxGaps == 2
MaxGapOffset == 3
MaxGapLength == 2
MaxScriptOffset == 4
MaxCalls == 2

(***************************************************************************)
(* JavaScript values.                                                      *)
(***************************************************************************)
Undefined == [undefined |-> TRUE]

EmptyObject == [k \in {} |-> Undefined]

\* obj[key], undefined when the object has no such property
Get(obj, key) == IF key \in DOMAIN obj THEN obj[key] ELSE Undefined

\* Object.assign(target, source): the target's properties, overwritten and
\* extended by the source's
ObjectAssign(target, source) ==
    [k \in DOMAIN target \cup DOMAIN source |->
        IF k \in DOMAIN source THEN source[k] ELSE target[k]]

\* an `options` argument: an object, or undefined
OptionsObject(props) == [isObject |-> TRUE, props |-> props]

NoOptions == [isObject |-> FALSE, props |-> EmptyObject]

\* options || {}
OrEmpty(o) == IF o.isObject THEN o.props ELSE EmptyObject

(***************************************************************************)
(* Characters and strings.                                                 *)
(***************************************************************************)
DotVue == <<".", "v", "u", "e">>

UnknownJs == <<"u", "n", "k", "n", "o", "w", "n", ".", "j", "s">>

WhiteSpace == {" ", "\n"}

RECURSIVE SeqsUpTo(_, _)
SeqsUpTo(S, n) ==
    IF n = 0 THEN {<<>>}
    ELSE LET shorter == SeqsUpTo(S, n - 1)
         IN  shorter \cup {Append(s, c) : s \in {t \in shorter : Len(t) = n - 1}, c \in S}

(***************************************************************************)
(* path.extname (posix), as Node computes it: one backward scan.           *)
(***************************************************************************)
RECURSIVE ExtnameScan(_, _, _)
ExtnameScan(p, i, st) ==
    IF i = 0 THEN st
    ELSE IF p[i] = "/"
         THEN IF ~st.matchedSlash
              THEN [st EXCEPT !.startPart = i + 1]
              ELSE ExtnameScan(p, i - 1, st)
         ELSE LET s1 == IF st.end = 0
                        THEN [st EXCEPT !.matchedSlash = FALSE, !.end = i + 1]
                        ELSE st
                  s2 == IF p[i] = "."
                        THEN IF s1.startDot = 0
                             THEN [s1 EXCEPT !.startDot = i]
                             ELSE [s1 EXCEPT !.preDotState = 1]
                        ELSE IF s1.startDot # 0
                             THEN [s1 EXCEPT !.preDotState = -1]
                             ELSE s1
              IN  ExtnameScan(p, i - 1, s2)

\* Positions are 1-based here, so 0 stands for Node's -1 and `end` is one past
\* the last character of the basename.
extname(p) ==
    LET st == ExtnameScan(p, Len(p),
                  [startDot |-> 0, startPart |-> 1, end |-> 0,
                   matchedSlash |-> TRUE, preDotState |-> 0])
    IN  IF \/ st.startDot = 0
           \/ st.end = 0
           \/ st.preDotState = 0
           \/ (st.preDotState = 1 /\ st.startDot = st.end - 1
                                  /\ st.startDot = st.startPart + 1)
        THEN <<>>
        ELSE SubSeq(p, st.startDot, st.end - 1)

(***************************************************************************)
(* STARTS_WITH_LT = /^\s*</ and its test method.  The pattern has no g or  *)
(* y flag, so test always matches from index 0 and leaves lastIndex alone. *)
(***************************************************************************)
RECURSIVE MatchWsThenLt(_, _)
MatchWsThenLt(text, i) ==
    IF i > Len(text) THEN FALSE
    ELSE IF text[i] = "<" THEN TRUE
    ELSE IF text[i] \in WhiteSpace THEN MatchWsThenLt(text, i + 1)
    ELSE FALSE

\* the same pattern without its ^ anchor: a match may start anywhere
STARTS_WITH_LT_unanchored(text) == \E i \in 1..Len(text) : text[i] = "<"

STARTS_WITH_LT_test(text) == MatchWsThenLt(text, 1)

\* lastIndex after a test: unchanged for a pattern that is not global
STARTS_WITH_LT_lastIndexAfter(text, li) == li

(***************************************************************************)
(* isVueFile                                                               *)
(***************************************************************************)
FilePathOf(opts) ==
    IF "filePath" \in DOMAIN opts /\ opts.filePath # <<>>
    THEN opts.filePath
    ELSE UnknownJs

isVueFile(c, opts) ==
    extname(FilePathOf(opts)) = DotVue \/ STARTS_WITH_LT_test(c.text)

(***************************************************************************)
(* Documents.  A document is known by the characters its text starts with, *)
(* by what the script parser makes of the whole text, and by what the      *)
(* markup tokenizer and parser make of it: the kinds of its top-level      *)
(* nodes, in order, and the tokenizer's gap records and line terminators.  *)
(***************************************************************************)
Kind(type, name, children, content, closed) ==
    [type |-> type, name |-> name, children |-> children,
     content |-> content, closed |-> closed]

TextKind == Kind("VText", "", <<>>, "none", TRUE)

CommentKind == Kind("HTMLComment", "", <<>>, "none", TRUE)

ElementKind(name, children) == Kind("VElement", name, children, "none", TRUE)

ScriptKind(content) == Kind("VElement", "script", <<>>, content, TRUE)

NestedKinds == {<<>>, <<ScriptKind("good")>>, <<ElementKind("template", <<>>)>>}

NodeKinds ==
    {TextKind, CommentKind}
    \cup {ElementKind("div", n) : n \in NestedKinds}
    \cup {Kind("VElement", "div", <<>>, "none", FALSE)}
    \cup {ElementKind("template", n) : n \in NestedKinds}
    \cup {ScriptKind(c) : c \in {"good", "bad"}}

Gap(offset, length) == [offset |-> offset, length |-> length]

Document(text, src, kinds, gaps, lts) ==
    [text |-> text, src |-> src, kinds |-> kinds, gaps |-> gaps,
     lineTerminators |-> lts]

(***************************************************************************)
(* ./html: HTMLTokenizer and HTMLParser.  The parser gives every node its  *)
(* source range and keeps document-wide tokens, comments and errors; it    *)
(* recovers from malformed markup and reports it in errors.                *)
(***************************************************************************)
NodeOf(kind, start) ==
    [type |-> kind.type, name |-> kind.name, content |-> kind.content,
     range |-> <<start, start + 9>>,
     children |-> [j \in 1..Len(kind.children) |->
                     [type |-> kind.children[j].type,
                      name |-> kind.children[j].name,
                      content |-> kind.children[j].content,
                      range |-> <<start + 1, start + 8>>,
                      children |-> <<>>]]]

HTMLTokenizer(c) == [gaps |-> c.gaps, lineTerminators |-> c.lineTerminators]

\* every top-level item of the document, comments included, in document order
TopLevel(c) == [i \in 1..Len(c.kinds) |-> NodeOf(c.kinds[i], 10 * (i - 1))]

TokenOf(node) == [type |-> node.type, range |-> node.range]

ErrorsOf(c) ==
    SelectSeq([i \in 1..Len(c.kinds) |->
                 [code |-> IF c.kinds[i].closed THEN "" ELSE "missing-end-tag",
                  index |-> 10 * (i - 1)]],
              LAMBDA e : e.code # "")

\* A comment is no child of the root: it is kept in the comments list only.
HTMLParser_parse(c) ==
    LET all == TopLevel(c)
        toks == [i \in 1..Len(all) |-> TokenOf(all[i])]
    IN  [type |-> "VDocumentFragment",
         range |-> <<0, 10 * Len(c.kinds)>>,
         children |-> SelectSeq(all, LAMBDA n : n.type # "HTMLComment"),
         tokens |-> SelectSeq(toks, LAMBDA t : t.type # "HTMLComment"),
         comments |-> SelectSeq(toks, LAMBDA t : t.type = "HTMLComment"),
         errors |-> ErrorsOf(c)]

(***************************************************************************)
(* ./common/location-calculator                                            *)
(***************************************************************************)
NewLocationCalculator(gaps, lts) == [gaps |-> gaps, lineTerminators |-> lts]

\* one forward scan over the sorted gap list
RECURSIVE GapScan(_, _, _, _)
GapScan(gaps, i, s, acc) ==
    IF i > Len(gaps) \/ gaps[i].offset > s THEN acc
    ELSE GapScan(gaps, i + 1, s, acc + gaps[i].length)

toDocumentOffset(calc, s) == GapScan(calc.gaps, 1, s, s)

(***************************************************************************)
(* ./script: parseScript and parseScriptElement.  Both hand the text to    *)
(* the script parser the options name (espree when they name none) and     *)
(* give back what it gave: {ast, services?}.  A syntax error is thrown.    *)
(* parseScriptElement reports every position in document coordinates.      *)
(***************************************************************************)
ParserServices(opts) ==
    LET parser == IF "parser" \in DOMAIN opts THEN opts.parser ELSE <<>>
    IN  IF parser = <<"A">>
        THEN [services |-> [program |-> "scriptParser"]]
        ELSE IF parser = <<"B">>
        THEN [services |-> [program |-> "scriptParser",
                            registerTemplateBodyVisitor |-> "scriptParser"]]
        ELSE EmptyObject

Program(src, start, end) ==
    [type |-> "Program",
     range |-> <<start, end>>,
     body |-> IF src = "good"
              THEN <<[type |-> "VariableDeclaration", range |-> <<start, end>>]>>
              ELSE <<>>]

SrcLength(src) == IF src = "empty" THEN 0 ELSE 3

Thrown == [threw |-> TRUE, value |-> EmptyObject]

Returned(v) == [threw |-> FALSE, value |-> v]

parseScript(src, opts) ==
    IF src = "bad" THEN Thrown
    ELSE Returned(ObjectAssign([ast |-> Program(src, 0, SrcLength(src))],
                               ParserServices(opts)))

parseScriptElement(node, calc, opts) ==
    IF node.content = "bad" THEN Thrown
    ELSE Returned(ObjectAssign(
             [ast |-> Program(node.content,
                              toDocumentOffset(calc, 0) + node.range[1] + 1,
                              toDocumentOffset(calc, SrcLength(node.content))
                                  + node.range[1] + 1)],
             ParserServices(opts)))

ScriptCall(fn, text, opts) == [fn |-> fn, text |-> text, options |-> opts]

(***************************************************************************)
(* ./parser-services                                                       *)
(***************************************************************************)
CoordinatorServices == [registerTemplateBodyVisitor |-> "coordinator"]

(***************************************************************************)
(* The coordinator: src/index.ts                                           *)
(***************************************************************************)
DefaultOptions ==
    [comment |-> TRUE, ecmaVersion |-> 2015, loc |-> TRUE, range |-> TRUE,
     tokens |-> TRUE]

\* lines 51-57: a fresh object, the defaults overlaid by the caller's options
MergedOptions(o) == ObjectAssign(DefaultOptions, OrEmpty(o))

\* what lines 51-57 leave in the caller's object
CallerOptionsAfterMerge(o) == o

isTemplateElement(node) == node.type = "VElement" /\ node.name = "template"

isScriptElement(node) == node.type = "VElement" /\ node.name = "script"

\* Array.prototype.find: the first element the predicate accepts, or undefined
RECURSIVE FirstTrue(_, _)
FirstTrue(flags, i) ==
    IF i > Len(flags) THEN 0
    ELSE IF flags[i] THEN i
    ELSE FirstTrue(flags, i + 1)

\* accepts[j] is the predicate's answer for arr[j]
Find(arr, accepts) ==
    LET i == FirstTrue(accepts, 1)
    IN  IF i = 0 THEN Undefined ELSE arr[i]

\* the plain path run through the assembly of lines 80-81 as well
PlainResult_assembled(ret) ==
    ObjectAssign(ret,
        [ast |-> ObjectAssign(ret.ast, [templateBody |-> Undefined]),
         services |-> ObjectAssign(IF "services" \in DOMAIN ret THEN ret.services
                                   ELSE EmptyObject,
                                   CoordinatorServices)])

\* line 60: the plain path returns the script parser's result as it is
PlainResult(ret) == ret

\* the calculator built without the tokenizer's gaps
MakeLocationCalcurator_noGaps(tok) == NewLocationCalculator(<<>>, tok.lineTerminators)

\* line 65
MakeLocationCalcurator(tok) == NewLocationCalculator(tok.gaps, tok.lineTerminators)

\* the last matching child instead of the first
ScriptOf_last(root) ==
    LET hits == SelectSeq(root.children, isScriptElement)
    IN  IF hits = <<>> THEN Undefined ELSE hits[Len(hits)]

\* line 66
ScriptOf(root) ==
    Find(root.children,
         [j \in 1..Len(root.children) |-> isScriptElement(root.children[j])])

\* line 67
TemplateOf(root) ==
    Find(root.children,
         [j \in 1..Len(root.children) |-> isTemplateElement(root.children[j])])

WholeText(c) == [of |-> "code", src |-> c.src, range |-> <<0, 0>>]

EmptyText == [of |-> "literal", src |-> "empty", range |-> <<0, 0>>]

ElementText(node) == [of |-> "element", src |-> node.content, range |-> node.range]

\* without a script block, the whole document handed to the script parser
ScriptDriverCall_wholeCode(s, c, opts) ==
    IF s # Undefined
    THEN ScriptCall("parseScriptElement", ElementText(s), opts)
    ELSE ScriptCall("parseScript", WholeText(code), opts)

\* lines 68-70: which entry of ./script is called, on what
ScriptDriverCall(s, c, opts) ==
    IF s # Undefined
    THEN ScriptCall("parseScriptElement", ElementText(s), opts)
    ELSE ScriptCall("parseScript", EmptyText, opts)

\* the script parser's answer to a call
ScriptAnswer(call, s, calc) ==
    IF call.fn = "parseScriptElement"
    THEN parseScriptElement(s, calc, call.options)
    ELSE parseScript(call.text.src, call.options)

\* a throw caught and replaced by the parse of an empty program
Propagate_recover(answer) ==
    IF answer.threw THEN parseScript("empty", EmptyObject) ELSE answer

\* lines 59-70 hold no try: a throw of the script parser leaves the call
Propagate(answer) == answer

\* the markup parser's errors left out
ConcreteInfo_noErrors(root) ==
    [tokens |-> root.tokens, comments |-> root.comments, errors |-> <<>>]

\* lines 71-75
ConcreteInfo(root) ==
    [tokens |-> root.tokens, comments |-> root.comments, errors |-> root.errors]

\* an empty placeholder element where no template was located
TemplateBodyOf_placeholder(t, info) ==
    ObjectAssign(IF t # Undefined THEN t
                 ELSE [type |-> "VElement", name |-> "template", content |-> "none",
                       range |-> <<0, 0>>, children |-> <<>>],
                 info)

\* lines 76-78
TemplateBodyOf(t, info) ==
    IF t # Undefined THEN ObjectAssign(t, info) ELSE Undefined

\* the overlay the other way round: the script parser's services win
ServicesAfter_parserWins(res, svc) ==
    LET own == Get(res, "services")
    IN  ObjectAssign(svc, IF own = Undefined THEN EmptyObject ELSE own)

\* line 81: the value of result.services
ServicesAfter(res, svc) ==
    LET own == Get(res, "services")
    IN  ObjectAssign(IF own = Undefined THEN EmptyObject ELSE own, svc)

\* the module's mapping used as the target of the merge
ModuleServicesAfter_merged(res, svc) ==
    LET own == Get(res, "services")
    IN  ObjectAssign(svc, IF own = Undefined THEN EmptyObject ELSE own)

\* line 81: what the statement leaves in the module's services mapping
ModuleServicesAfter(res, svc) == svc

Idle ==
    /\ pc = "idle"
    /\ code = Undefined
    /\ callerOptions = NoOptions
    /\ argOptions = NoOptions
    /\ options = EmptyObject
    /\ isVue = FALSE
    /\ tokenizer = Undefined
    /\ rootAST = Undefined
    /\ locationCalcurator = Undefined
    /\ script = Undefined
    /\ template = Undefined
    /\ result = Undefined
    /\ parserReturn = Undefined
    /\ scriptCalls = <<>>
    /\ htmlCalls = 0
    /\ returned = Undefined

Init ==
    /\ services = CoordinatorServices
    /\ lastIndex = 0
    /\ Idle
    /\ calls = 0
    /\ scriptOffset = 0
    /\ documentOffset = 0

\* lines 50-59: entry, the merge of the options, the classification
Enter(c, o) ==
    /\ pc = "idle"
    /\ code' = c
    /\ argOptions' = o
    /\ callerOptions' = CallerOptionsAfterMerge(o)
    /\ options' = MergedOptions(o)
    /\ isVue' = isVueFile(c, options')
    /\ lastIndex' = STARTS_WITH_LT_lastIndexAfter(c.text, lastIndex)
    /\ pc' = IF isVue' THEN "markup" ELSE "plain"
    /\ UNCHANGED <<services, tokenizer, rootAST, locationCalcurator, script,
                   template, result, parserReturn, scriptCalls, htmlCalls,
                   returned, scriptOffset, documentOffset>>

\* line 60
ParsePlain ==
    /\ pc = "plain"
    /\ LET call == ScriptCall("parseScript", WholeText(code), options)
           raw == parseScript(call.text.src, call.options)
           answer == Propagate(raw)
       IN  /\ scriptCalls' = Append(scriptCalls, call)
           /\ parserReturn' = raw
           /\ IF answer.threw
              THEN pc' = "failed" /\ result' = Undefined
              ELSE pc' = "done" /\ result' = PlainResult(answer.value)
    /\ UNCHANGED <<calls, services, lastIndex, code, callerOptions, argOptions, options,
                   isVue, tokenizer, rootAST, locationCalcurator, script,
                   template, htmlCalls, returned, scriptOffset,
                   documentOffset>>

\* lines 63-67
ParseMarkup ==
    /\ pc = "markup"
    /\ tokenizer' = HTMLTokenizer(code)
    /\ rootAST' = HTMLParser_parse(code)
    /\ htmlCalls' = htmlCalls + 1
    /\ locationCalcurator' = MakeLocationCalcurator(tokenizer')
    /\ script' = ScriptOf(rootAST')
    /\ template' = TemplateOf(rootAST')
    /\ pc' = "located"
    /\ UNCHANGED <<calls, services, lastIndex, code, callerOptions, argOptions, options,
                   isVue, result, parserReturn, scriptCalls, returned,
                   scriptOffset, documentOffset>>

\* lines 68-70
DriveScript ==
    /\ pc = "located"
    /\ LET call == ScriptDriverCall(script, locationCalcurator, options)
           raw == ScriptAnswer(call, script, locationCalcurator)
           answer == Propagate(raw)
       IN  /\ scriptCalls' = Append(scriptCalls, call)
           /\ parserReturn' = raw
           /\ IF answer.threw
              THEN pc' = "failed" /\ result' = Undefined
              ELSE pc' = "parsed" /\ result' = answer.value
    /\ UNCHANGED <<calls, services, lastIndex, code, callerOptions, argOptions, options,
                   isVue, tokenizer, rootAST, locationCalcurator, script,
                   template, htmlCalls, returned, scriptOffset,
                   documentOffset>>

\* Object.assign(template, ...) writes into the node the root holds
ChildrenAfterAssign(children, t, body) ==
    [i \in 1..Len(children) |-> IF children[i] = t THEN body ELSE children[i]]

\* lines 71-83
Assemble ==
    /\ pc = "parsed"
    /\ LET concreteInfo == ConcreteInfo(rootAST)
           templateBody == TemplateBodyOf(template, concreteInfo)
       IN  /\ template' = templateBody
           /\ rootAST' = [rootAST EXCEPT
                             !.children = ChildrenAfterAssign(@, template, templateBody)]
           /\ result' = ObjectAssign(result,
                  [ast |-> ObjectAssign(result.ast, [templateBody |-> templateBody]),
                   services |-> ServicesAfter(result, services)])
    /\ services' = ModuleServicesAfter(result, services)
    /\ pc' = "done"
    /\ UNCHANGED <<calls, lastIndex, code, callerOptions, argOptions, options, isVue,
                   tokenizer, locationCalcurator, script, parserReturn,
                   scriptCalls, htmlCalls, returned, scriptOffset,
                   documentOffset>>

\* lines 60 and 83: parseForESLint hands its result to the caller
ReturnExtendedProgram ==
    /\ pc = "done"
    /\ returned' = result
    /\ pc' = "returned"
    /\ UNCHANGED <<calls, services, lastIndex, code, callerOptions, argOptions, options,
                   isVue, tokenizer, rootAST, locationCalcurator, script,
                   template, result, parserReturn, scriptCalls, htmlCalls,
                   scriptOffset, documentOffset>>

\* line 93: parse hands the caller the ast of parseForESLint's result
parse ==
    /\ pc = "done"
    /\ returned' = result.ast
    /\ pc' = "returned"
    /\ UNCHANGED <<calls, services, lastIndex, code, callerOptions, argOptions, options,
                   isVue, tokenizer, rootAST, locationCalcurator, script,
                   template, result, parserReturn, scriptCalls, htmlCalls,
                   scriptOffset, documentOffset>>

\* the call is over: its locals are gone, the module's state stays
CallOver ==
    /\ pc \in {"returned", "failed"}
    /\ pc' = "idle"
    /\ code' = Undefined
    /\ callerOptions' = NoOptions
    /\ argOptions' = NoOptions
    /\ options' = EmptyObject
    /\ isVue' = FALSE
    /\ tokenizer' = Undefined
    /\ rootAST' = Undefined
    /\ locationCalcurator' = Undefined
    /\ script' = Undefined
    /\ template' = Undefined
    /\ result' = Undefined
    /\ parserReturn' = Undefined
    /\ scriptCalls' = <<>>
    /\ htmlCalls' = 0
    /\ returned' = Undefined
    /\ UNCHANGED <<calls, services, lastIndex, scriptOffset, documentOffset>>

(***************************************************************************)
(* The inputs of the calls.                                                *)
(***************************************************************************)
TextSamples == {<<"<">>, <<"x">>}

PathSamples == {<<"v", ".", "j", "s">>, <<"v", ".", "v", "u", "e">>}

OptionSamples ==
    {NoOptions} \cup
    {OptionsObject(ObjectAssign(ObjectAssign(a, b), c)) :
        a \in {EmptyObject} \cup {[filePath |-> p] : p \in PathSamples},
        b \in {EmptyObject, [parser |-> <<"A">>], [parser |-> <<"B">>]},
        c \in {EmptyObject, [ecmaVersion |-> 2017]}}

TokenizerSamples ==
    {[gaps |-> <<>>, lineTerminators |-> <<>>],
     [gaps |-> <<Gap(0, 2)>>, lineTerminators |-> <<1>>]}

Documents ==
    {Document(t, src, kinds, tok.gaps, tok.lineTerminators) :
        t \in TextSamples, src \in {"good", "bad"},
        kinds \in SeqsUpTo(NodeKinds, MaxChildren), tok \in TokenizerSamples}

\* a caller calls parseForESLint or parse
Call ==
    /\ pc = "idle"
    /\ \E c \in Documents, o \in OptionSamples : Enter(c, o)
    /\ UNCHANGED calls

Next ==
    \/ Call
    \/ ParsePlain
    \/ ParseMarkup
    \/ DriveScript
    \/ Assemble
    \/ ReturnExtendedProgram
    \/ parse
    \/ CallOver

Spec == Init /\ [][Next]_vars

(***************************************************************************)
(* The classifier alone, on every short text and every short file path.    *)
(***************************************************************************)
CodeChars == {" ", "<", "x"}

PathChars == {".", "/", "v", "u", "e"}

ClassifyDocuments ==
    {Document(t, "good", <<>>, <<>>, <<>>) : t \in SeqsUpTo(CodeChars, MaxCodeLen)}

ClassifyOptions ==
    {NoOptions, OptionsObject(EmptyObject)} \cup
    {OptionsObject([filePath |-> p]) : p \in SeqsUpTo(PathChars, MaxPathLen)}

CallClassifier ==
    /\ pc = "idle"
    /\ \E c \in ClassifyDocuments, o \in ClassifyOptions : Enter(c, o)
    /\ UNCHANGED calls

NextClassify == CallClassifier

SpecClassify == Init /\ [][NextClassify]_vars

(***************************************************************************)
(* The location calculator of a call, asked for document offsets the way   *)
(* parseScriptElement asks it.                                             *)
(***************************************************************************)
RECURSIVE GapLists(_)
GapLists(n) ==
    IF n = 0 THEN {<<>>}
    ELSE LET shorter == GapLists(n - 1)
         IN  shorter \cup
             {Append(g, Gap(o, l)) :
                 g \in {h \in shorter : Len(h) = n - 1},
                 o \in 0..MaxGapOffset, l \in 0..MaxGapLength}

\* gap records as the tokenizer keeps them: offsets strictly increasing
SortedGapLists ==
    {g \in GapLists(MaxGaps) :
        \A i \in 1..Len(g) - 1 : g[i].offset < g[i + 1].offset}

LocationDocuments ==
    {Document(<<"<">>, "good", <<ScriptKind("good")>>, g, <<>>) : g \in SortedGapLists}

CallWithGaps ==
    /\ pc = "idle"
    /\ \E c \in LocationDocuments : Enter(c, NoOptions)
    /\ UNCHANGED calls

Translate ==
    /\ pc \in {"located", "translated"}
    /\ \E s \in 0..MaxScriptOffset :
          /\ scriptOffset' = s
          /\ documentOffset' = toDocumentOffset(locationCalcurator, s)
    /\ pc' = "translated"
    /\ UNCHANGED <<services, lastIndex, code, callerOptions, argOptions,
                   options, isVue, tokenizer, rootAST, locationCalcurator,
                   script, template, result, parserReturn, scriptCalls,
                   htmlCalls, returned, calls>>

NextLocation == CallWithGaps \/ ParseMarkup \/ Translate

SpecLocation == Init /\ [][NextLocation]_vars

(***************************************************************************)
(* Calls one after another, counted by the caller.                         *)
(***************************************************************************)
CallDocuments ==
    {Document(<<"x">>, src, <<>>, <<>>, <<>>) : src \in {"good", "bad"}}
    \cup {Document(<<"<">>, "good", kinds, <<Gap(0, 2)>>, <<1>>) :
            kinds \in {<<>>, <<ScriptKind("good")>>, <<ScriptKind("bad")>>,
                       <<ElementKind("template", <<>>), ScriptKind("good")>>}}

CallOptions ==
    {NoOptions,
     OptionsObject([parser |-> <<"A">>]),
     OptionsObject([parser |-> <<"B">>, ecmaVersion |-> 2017]),
     OptionsObject([filePath |-> <<"v", ".", "v", "u", "e">>])}

CountedCall ==
    /\ pc = "idle"
    /\ calls < MaxCalls
    /\ calls' = calls + 1
    /\ \E c \in CallDocuments, o \in CallOptions : Enter(c, o)

NextCalls ==
    \/ CountedCall
    \/ ParsePlain
    \/ ParseMarkup
    \/ DriveScript
    \/ Assemble
    \/ ReturnExtendedProgram
    \/ parse
    \/ CallOver

SpecCalls == Init /\ [][NextCalls]_vars

(***************************************************************************)
(* What the claims speak of, stated apart from the code's own steps.       *)
(***************************************************************************)
Min(S) == CHOOSE i \in S : \A j \in S : i <= j

Max(S) == CHOOSE i \in S : \A j \in S : j <= i

\* the path the caller supplied, the empty string when none was
SuppliedPath(o) ==
    IF o.isObject /\ "filePath" \in DOMAIN o.props THEN o.props.filePath ELSE <<>>

\* The last segment of the path (trailing slashes aside) is longer than
\* ".vue" and ends with it: a file named just ".vue" has no extension.
HasVueExtension(p) ==
    LET solid == {i \in 1..Len(p) : p[i] # "/"}
        last == IF solid = {} THEN 0 ELSE Max(solid)
        slashes == {i \in 1..last : p[i] = "/"}
        first == IF slashes = {} THEN 1 ELSE Max(slashes) + 1
    IN  /\ last - first + 1 >= 5
        /\ SubSeq(p, last - 3, last) = DotVue

\* the text, leading whitespace skipped, begins with '<'
BeginsWithLt(text) ==
    \E i \in 1..Len(text) :
        text[i] = "<" /\ \A j \in 1..(i - 1) : text[j] \in WhiteSpace

Entered == pc \in {"plain", "markup"}

\* C1: the document is classified MarkupEmbedded exactly when the supplied
\* file path has the extension .vue or the text, leading whitespace skipped,
\* begins with '<'; a .vue path decides whatever the text is, and without a
\* supplied path the text alone decides.
C1_Classification ==
    Entered =>
        /\ isVue = (HasVueExtension(SuppliedPath(argOptions)) \/ BeginsWithLt(code.text))
        /\ (pc = "markup") = isVue
        /\ HasVueExtension(SuppliedPath(argOptions)) => pc = "markup"
        /\ SuppliedPath(argOptions) = <<>> => (isVue = BeginsWithLt(code.text))

\* a .vue path with a text that does not begin with '<'
C1_Witness ==
    /\ pc = "markup"
    /\ HasVueExtension(SuppliedPath(argOptions))
    /\ code.text # <<>>
    /\ ~BeginsWithLt(code.text)

\* the configuration the claims call merged: the caller's value for every
\* option the caller gave, the default for the rest
ExpectedConfig(o) ==
    LET given == IF o.isObject THEN DOMAIN o.props ELSE {}
    IN  [k \in given \cup {"comment", "ecmaVersion", "loc", "range", "tokens"} |->
            IF k \in given THEN o.props[k]
            ELSE IF k = "ecmaVersion" THEN 2015 ELSE TRUE]

\* the root's children as the markup parser gave them
ParsedChildren == HTMLParser_parse(code).children

ElementsNamed(kids, name) ==
    {i \in 1..Len(kids) : kids[i].type = "VElement" /\ kids[i].name = name}

Finished == pc \in {"done", "returned"}

\* C2: a PlainScript document gives exactly what the script parser returns
\* for the whole text under the merged configuration; the markup parser is
\* not invoked, there is no templateBody, nothing is added or changed.
C2_PlainIsScriptParser ==
    (Finished /\ ~isVue) =>
        /\ result = parserReturn.value
        /\ scriptCalls = <<ScriptCall("parseScript", WholeText(code),
                                      ExpectedConfig(argOptions))>>
        /\ htmlCalls = 0
        /\ rootAST = Undefined
        /\ "templateBody" \notin DOMAIN result.ast
        /\ ("services" \in DOMAIN result) = ("services" \in DOMAIN parserReturn.value)

\* a plain document parsed by a parser that attached services of its own
C2_Witness ==
    /\ pc = "returned"
    /\ ~isVue
    /\ "services" \in DOMAIN result
    /\ "registerTemplateBodyVisitor" \in DOMAIN result.services
    /\ Get(options, "ecmaVersion") = 2017

\* C3: the script block and the template block are, each on its own, the
\* first top-level child that is an element of that name; the script parser
\* is driven on that first script block and its answer is the result, and
\* later blocks of the same name neither change that nor raise an error.
C3_FirstTopLevelBlock ==
    (isVue /\ pc \in {"located", "parsed", "failed"}) =>
        LET kids == ParsedChildren
            S == ElementsNamed(kids, "script")
            T == ElementsNamed(kids, "template")
        IN  /\ script = (IF S = {} THEN Undefined ELSE kids[Min(S)])
            /\ template = (IF T = {} THEN Undefined ELSE kids[Min(T)])
            /\ (pc # "located" /\ S # {}) =>
                   /\ Len(scriptCalls) = 1
                   /\ scriptCalls[1].text = ElementText(kids[Min(S)])
                   /\ parserReturn =
                          parseScriptElement(kids[Min(S)],
                              NewLocationCalculator(code.gaps, code.lineTerminators),
                              ExpectedConfig(argOptions))
            /\ pc = "parsed" => result = parserReturn.value
            /\ pc = "failed" => (S # {} /\ kids[Min(S)].content = "bad")

\* two top-level script blocks, a broken one after a sound one, and the
\* script parser has been driven
C3_Witness ==
    /\ pc = "parsed"
    /\ Len(rootAST.children) = 2
    /\ Cardinality(ElementsNamed(rootAST.children, "script")) = 2
    /\ rootAST.children[1].content = "good"
    /\ rootAST.children[2].content = "bad"

\* C4: a MarkupEmbedded document without a top-level script element has
\* the script parser driven once, on the empty string, with the merged
\* configuration and through parseScript (no remapping); the program has
\* no statements and the call does not fail.
C4_NoScriptBlock ==
    (isVue /\ pc \in {"parsed", "done", "returned", "failed"}
           /\ ElementsNamed(ParsedChildren, "script") = {}) =>
        /\ pc # "failed"
        /\ scriptCalls = <<ScriptCall("parseScript", EmptyText,
                                      ExpectedConfig(argOptions))>>
        /\ result.ast.type = "Program"
        /\ result.ast.body = <<>>
        /\ result.ast.range = <<0, 0>>

\* no top-level script, a script nested in a block, a whole text that would
\* parse to a statement
C4_Witness ==
    /\ pc = "done"
    /\ isVue
    /\ ElementsNamed(ParsedChildren, "script") = {}
    /\ \E i \in 1..Len(ParsedChildren) :
          ElementsNamed(ParsedChildren[i].children, "script") # {}
    /\ code.src = "good"

\* C5: on the markup path templateBody is present exactly when a top-level
\* template element exists, script block or not; it is that element with
\* the type, name, children and range the markup parser gave it; without a
\* template the property holds undefined.
C5_TemplateBody ==
    (Finished /\ isVue) =>
        LET kids == ParsedChildren
            T == ElementsNamed(kids, "template")
            body == result.ast.templateBody
        IN  /\ "templateBody" \in DOMAIN result.ast
            /\ (T = {}) = (body = Undefined)
            /\ T # {} =>
                   /\ body.type = kids[Min(T)].type
                   /\ body.name = kids[Min(T)].name
                   /\ body.children = kids[Min(T)].children
                   /\ body.range = kids[Min(T)].range

\* a template that is not the first child, with children of its own, in a
\* document without a script block
C5_Witness ==
    /\ pc = "done"
    /\ isVue
    /\ script = Undefined
    /\ result.ast.templateBody # Undefined
    /\ result.ast.templateBody.range[1] > 0
    /\ result.ast.templateBody.children # <<>>

\* C5, the other side: no template, and the property holds undefined
C5_AbsentReached ==
    /\ pc = "done"
    /\ isVue
    /\ script # Undefined
    /\ result.ast.templateBody = Undefined

\* C6: a present templateBody carries the markup parser's document-wide
\* tokens, comments and errors, the same lists in the same order; and a
\* call fails only where the script parser threw, whatever the markup
\* parser reported.
C6_ConcreteInfo ==
    /\ (Finished /\ isVue /\ result.ast.templateBody # Undefined) =>
           LET root == HTMLParser_parse(code)
               body == result.ast.templateBody
           IN  /\ body.tokens = root.tokens
               /\ body.comments = root.comments
               /\ body.errors = root.errors
    /\ (isVue /\ pc \in {"parsed", "done", "returned", "failed"}) =>
           ((pc = "failed") = parserReturn.threw)

\* a template with a token, a comment and a reported error outside its range
C6_Witness ==
    /\ pc = "done"
    /\ isVue
    /\ result.ast.templateBody # Undefined
    /\ \E i \in 1..Len(result.ast.templateBody.tokens) :
          result.ast.templateBody.tokens[i].range[1] > result.ast.templateBody.range[2]
    /\ result.ast.templateBody.errors # <<>>

\* C7: on the markup path the result's services are the script parser's
\* (none when it attached none) overlaid with the coordinator's: every
\* coordinator name maps to the coordinator's capability, every other name
\* of the script parser is kept.
C7_ServicesOverlay ==
    (Finished /\ isVue) =>
        LET base == IF "services" \in DOMAIN parserReturn.value
                    THEN parserReturn.value.services ELSE EmptyObject
            fixed == [registerTemplateBodyVisitor |-> "coordinator"]
        IN  /\ DOMAIN result.services = DOMAIN base \cup DOMAIN fixed
            /\ \A k \in DOMAIN fixed : result.services[k] = fixed[k]
            /\ \A k \in DOMAIN base \ DOMAIN fixed : result.services[k] = base[k]

\* the script parser attached a service under the coordinator's name
C7_Witness ==
    /\ pc = "done"
    /\ isVue
    /\ "services" \in DOMAIN parserReturn.value
    /\ "registerTemplateBodyVisitor" \in DOMAIN parserReturn.value.services
    /\ parserReturn.value.services.registerTemplateBodyVisitor = "scriptParser"

ScriptParserAnswered == "threw" \in DOMAIN parserReturn

\* C8: when the script parser throws, on the plain text or on the script
\* block's text, the call fails: no result, nothing returned, no second
\* attempt; and a call fails only so, never for an absent block.
C8_ScriptFailureIsFatal ==
    /\ (ScriptParserAnswered /\ parserReturn.threw) =>
           /\ pc = "failed"
           /\ result = Undefined
           /\ returned = Undefined
           /\ Len(scriptCalls) = 1
    /\ pc = "failed" =>
           /\ ScriptParserAnswered /\ parserReturn.threw
           /\ scriptCalls[1].text.src = "bad"
           /\ isVue => script # Undefined

\* a broken script block beside a template: the call has failed
C8_Witness ==
    /\ pc = "failed"
    /\ isVue
    /\ template # Undefined
    /\ script # Undefined

\* C10: the calculator of a call answers s plus the lengths of the
\* tokenizer's gap records at offsets <= s, is monotonic, and answers its
\* argument when there are no gaps.
RECURSIVE SumLengths(_, _)
SumLengths(gaps, I) ==
    IF I = {} THEN 0
    ELSE LET i == CHOOSE j \in I : TRUE
         IN  gaps[i].length + SumLengths(gaps, I \ {i})

GapsUpTo(gaps, s) == {i \in 1..Len(gaps) : gaps[i].offset <= s}

C10_ToDocumentOffset ==
    pc = "translated" =>
        /\ documentOffset =
               scriptOffset + SumLengths(tokenizer.gaps, GapsUpTo(tokenizer.gaps, scriptOffset))
        /\ \A a \in 0..MaxScriptOffset, b \in 0..MaxScriptOffset :
               a <= b => toDocumentOffset(locationCalcurator, a)
                             <= toDocumentOffset(locationCalcurator, b)
        /\ \A a \in 0..MaxScriptOffset :
               toDocumentOffset(locationCalcurator, a) =
                   a + SumLengths(tokenizer.gaps, GapsUpTo(tokenizer.gaps, a))
        /\ tokenizer.gaps = <<>> => documentOffset = scriptOffset

\* an offset past one gap and before the next has been translated
C10_Witness ==
    /\ pc = "translated"
    /\ Len(tokenizer.gaps) = 2
    /\ tokenizer.gaps[1].offset <= scriptOffset
    /\ scriptOffset < tokenizer.gaps[2].offset
    /\ tokenizer.gaps[1].length > 0
    /\ documentOffset = scriptOffset + tokenizer.gaps[1].length

\* the result of the call made alone, the module as it was loaded
AloneResult(c, o) ==
    LET opts == ExpectedConfig(o)
        vue == HasVueExtension(SuppliedPath(o)) \/ BeginsWithLt(c.text)
        root == HTMLParser_parse(c)
        S == ElementsNamed(root.children, "script")
        T == ElementsNamed(root.children, "template")
        calc == NewLocationCalculator(c.gaps, c.lineTerminators)
        answer == IF ~vue THEN parseScript(c.src, opts)
                  ELSE IF S = {} THEN parseScript("empty", opts)
                  ELSE parseScriptElement(root.children[Min(S)], calc, opts)
        body == IF T = {} THEN Undefined
                ELSE ObjectAssign(root.children[Min(T)],
                         [tokens |-> root.tokens, comments |-> root.comments,
                          errors |-> root.errors])
        own == IF "services" \in DOMAIN answer.value
               THEN answer.value.services ELSE EmptyObject
    IN  IF answer.threw THEN Undefined
        ELSE IF ~vue THEN answer.value
        ELSE ObjectAssign(answer.value,
                 [ast |-> ObjectAssign(answer.value.ast, [templateBody |-> body]),
                  services |-> ObjectAssign(own,
                                   [registerTemplateBodyVisitor |-> "coordinator"])])

====
